---- MODULE Spec2Model ----
(***************************************************************************)
(* Model of the ILLIXR runtime orchestrator (runtime_impl), the            *)
(* offload_data plugin and the switchboard (event bus) they talk to.       *)
(*                                                                         *)
(* Threads:                                                                *)
(*   - the host's control thread, which calls load_so / load_plugin_factory*)
(*     / stop one call at a time (pc, and the locals of the call);         *)
(*   - the host thread blocked in wait() (waitPc);                         *)
(*   - one publisher of topic "texture_pose" (published);                  *)
(*   - the switchboard's dispatch of each subscription (subs);             *)
(*   - whoever destroys the runtime (Destroy, possible at any moment).     *)
(*                                                                         *)
(* runtime_impl and offload_data are translated from the source.  The      *)
(* switchboard and the plugin base class are not part of the source at     *)
(* hand: the switchboard is modelled from its written contract, and        *)
(* plugin::start / plugin::stop are counted calls.                         *)
(*                                                                         *)
(* Specifications:                                                         *)
(*   Spec        every call of the host, the bus and the wait() thread;    *)
(*   SpecFair    the same with the host loading by path, under fairness;   *)
(*   SpecLoad    loading with its failures, stop, and the destruction of   *)
(*               the runtime member by member;                             *)
(*   SpecOffload offload_data from construction in any environment to the  *)
(*               files its destructor writes.                              *)
(***************************************************************************)
EXTENDS Integers, Sequences, FiniteSets, TLC

\* ------------------------------------------------------------- bounds
MaxPlugins == 2     \* plugin instances held at most
MaxLoads   == 2     \* load_so / load_plugin_factory calls at most
MaxStops   == 2     \* stop() calls at most
MaxEvents  == 2     \* publish calls at most

\* A module path is named by a number: the host names the k-th path it
\* hands to load_so k.  A factory is <<m>>, the factory resolved from the
\* handle of module m, or <<>>, a factory the host supplies itself.

VARIABLES
    libs,               \* std::vector<dynamic_lib> libs: module of each open handle
    plugins,            \* std::vector<std::unique_ptr<plugin>> plugins
    terminate,          \* std::atomic<bool> terminate
    pc,                 \* control thread: where it is in load_so / stop
    plugin_factories,   \* load_so(vector): the local plugin_factories
    idx,                \* position of the running std::transform / for_each / for
    lib,                \* load_so(string_view): the local lib, <<m>> (<<>>: none)
    factory,            \* load_plugin_factory: <<plugin_main>> (<<>>: not in the call)
    waitPc,             \* thread in wait(): "out", "polling", "returned"
    sbState,            \* switchboard: "running", "stopping", "stopped"
    subs,               \* switchboard: subscriptions of topic "texture_pose"
    published,          \* number of publish calls made so far
    dropped,            \* publish calls that found the switchboard not running
    destroyed,          \* ~runtime_impl has run
    aborted,            \* ~runtime_impl called abort()
    loadCalls,          \* history: load_so / load_plugin_factory calls made
    pathsLoaded,        \* history: module paths supplied to load_so so far
    factoryCalls,       \* history: direct load_plugin_factory calls so far
    stopCalls,          \* history: stop() calls begun
    stopsCompleted,     \* history: stop() calls that ran to completion
    sbStopReturns,      \* history: switchboard::stop() calls that returned
    stopOrder,          \* history: ids stopped by the current/last stop() call
    pb,                 \* phonebook pb: the registrations made, in order
    stoppedImpl,        \* history: the instance stop() last looked up and stopped
    atLoad,             \* history: what was held when the current/last load call began
    failed,             \* "none", or the fatal failure that ended the process
    members,            \* data members of the runtime not yet destroyed
    closed,             \* modules whose handle has been closed
    env                 \* ILLIXR_OFFLOAD_ENABLE: <<>> (unset) or <<value>>

ctlVars  == <<pc, plugin_factories, idx, lib, factory>>
sbVars   == <<sbState, subs, published, dropped>>
histVars == <<loadCalls, pathsLoaded, factoryCalls, stopCalls, stopsCompleted,
              sbStopReturns, stopOrder>>
lifeVars == <<failed, members, closed, env>>
vars == <<libs, plugins, terminate, ctlVars, waitPc, sbVars, destroyed, aborted,
          histVars, pb, stoppedImpl, atLoad, lifeVars>>

\* ------------------------------------------------------------- helpers
\* The next n paths the host supplies.
FreshPaths(n) == [i \in 1..n |-> pathsLoaded + i]

\* lib.get<plugin* (*)(phonebook*)>("this_plugin_factory") on the handle of
\* module m.
get_factory(m) == <<m>>

\* ------------------------------------------------------------- phonebook
\* The registry maps a capability (the interface type a service is looked up
\* by) to the instance registered for it.  An instance is named by the
\* make_shared expression that created it.
\* pb.register_impl<capability>(impl).
register_impl(r, capability, impl) ==
    Append(r, [capability |-> capability, impl |-> impl])

\* Whether a capability has a registration in r.
Registered(r, capability) ==
    \E i \in 1..Len(r) : r[i].capability = capability

\* pb.lookup_impl<capability>(): the registered instance; the lookup of a
\* capability that was never registered fails ("unregistered").
lookup_impl(r, capability) ==
    IF Registered(r, capability)
    THEN r[CHOOSE i \in 1..Len(r) : r[i].capability = capability].impl
    ELSE "unregistered"

\* The constructor as it would be without the registration of the clock.
BuiltinServices_NoClock ==
    <<[capability |-> "record_logger", impl |-> "sqlite_record_logger"],
      [capability |-> "gen_guid", impl |-> "gen_guid"],
      [capability |-> "switchboard", impl |-> "switchboard"],
      [capability |-> "xlib_gl_extended_window", impl |-> "xlib_gl_extended_window"]>>

\* The registrations runtime_impl's constructor makes, in its order.
BuiltinServices ==
    <<[capability |-> "record_logger", impl |-> "sqlite_record_logger"],
      [capability |-> "gen_guid", impl |-> "gen_guid"],
      [capability |-> "switchboard", impl |-> "switchboard"],
      [capability |-> "xlib_gl_extended_window", impl |-> "xlib_gl_extended_window"],
      [capability |-> "realtime_clock", impl |-> "realtime_clock"]>>

\* The phonebook once the first n of them are registered.
RECURSIVE RegisterFirst(_)
RegisterFirst(n) ==
    IF n = 0 THEN <<>>
    ELSE register_impl(RegisterFirst(n - 1), BuiltinServices[n].capability,
                       BuiltinServices[n].impl)

\* ------------------------------------------------------------- Init
\* The state after runtime_impl's constructor: services registered (the
\* switchboard among them, running), nothing loaded, terminate false.
\* The members as they would be with plugins declared before libs.
MemberDeclarations_PluginsFirst == <<"plugins", "pb", "libs", "terminate">>

\* The data members, in the order of their declaration.
MemberDeclarations == <<"libs", "pb", "plugins", "terminate">>

\* The state once the constructor has returned, in a process whose
\* environment holds e for ILLIXR_OFFLOAD_ENABLE.
Constructed(e) ==
    /\ libs = <<>>
    /\ plugins = <<>>
    /\ terminate = FALSE
    /\ pc = "idle"
    /\ plugin_factories = <<>>
    /\ idx = 0
    /\ lib = <<>>
    /\ factory = <<>>
    /\ waitPc = "out"
    /\ sbState = "running"
    /\ subs = <<>>
    /\ published = 0
    /\ dropped = 0
    /\ destroyed = FALSE
    /\ aborted = FALSE
    /\ loadCalls = 0
    /\ pathsLoaded = 0
    /\ factoryCalls = 0
    /\ stopCalls = 0
    /\ stopsCompleted = 0
    /\ sbStopReturns = 0
    /\ stopOrder = <<>>
    /\ pb = RegisterFirst(Len(BuiltinServices))
    /\ stoppedImpl = "none"
    /\ atLoad = [libs |-> 0, subs |-> 0, starts |-> <<>>]
    /\ failed = "none"
    /\ members = MemberDeclarations
    /\ closed = {}
    /\ env = e

\* ILLIXR_OFFLOAD_ENABLE is not set.
Init == Constructed(<<>>)

\* The values ILLIXR_OFFLOAD_ENABLE is given.
EnableValues == {<<>>, <<"False">>, <<"True">>}

InitEnv == \E e \in EnableValues : Constructed(e)

\* ------------------------------------------------------------- switchboard
\* sb->schedule<texture_pose>(id, "texture_pose", callback): one more
\* subscription of the topic, with its own queue of undelivered events and
\* the event its callback is running on (0: callback not running); since
\* is the number of events published before the subscription existed.
schedule(s, id, type) ==
    Append(s, [owner |-> id, type |-> type, queue |-> <<>>, inflight |-> 0,
               since |-> published])

\* The check of schedule as it would be in a switchboard that takes any
\* payload type on any topic.
CanSchedule_Any(s, type) == TRUE

\* The topic is bound to the payload type of its subscriptions: schedule
\* with another type fails.
CanSchedule(s, type) == \A k \in 1..Len(s) : s[k].type = type

\* publish: the event goes to the queue of every current subscription and
\* the call returns without waiting for any callback.  A switchboard that is
\* stopping or stopped takes no event.
put(s, datum) == [k \in 1..Len(s) |-> [s[k] EXCEPT !.queue = Append(@, datum)]]

\* ------------------------------------------------------------- offload_data
\* The plugin's id (plugin base class: taken from the GUID source); ids are
\* handed out in construction order.
NextId == Len(plugins) + 1

\* A factory the host supplies whose plugin schedules a callback on
\* "texture_pose" with a payload type other than texture_pose.
MistypedFactory == <<0>>

\* The payload type the plugin made by factory m schedules "texture_pose" with.
PayloadType(m) == IF m = MistypedFactory THEN "other" ELSE "texture_pose"

\* ILLIXR::getenv_or: the value of the variable, or the default when unset.
getenv_or(e, default) == IF e = <<>> THEN default ELSE e[1]

\* ILLIXR::str_to_bool.
str_to_bool(v) == v = "True"

\* The constructor as it would be making a switchboard of its own instead of
\* looking the registered one up.
offload_data_OwnSwitchboard(id, m) ==
    [id |-> id, module |-> m, starts |-> 0, stops |-> 0, container |-> <<>>,
     sb |-> "switchboard_own",
     enable_offload |-> str_to_bool(getenv_or(env, "False")),
     files |-> {}, destructed |-> FALSE]

\* offload_data::offload_data, called by factory m (kept in field module:
\* <<h>> when the code is that of module h): an object with an empty
\* container and, in sb, the switchboard it looked up; start() and stop()
\* of the plugin base class are counted.
offload_data(id, m) ==
    [id |-> id, module |-> m, starts |-> 0, stops |-> 0, container |-> <<>>,
     sb |-> lookup_impl(pb, "switchboard"),
     enable_offload |-> str_to_bool(getenv_or(env, "False")),
     files |-> {}, destructed |-> FALSE]

\* callback as it would be keeping only the latest datum.
callback_KeepLatest(p, datum) == [p EXCEPT !.container = <<datum>>]

\* callback as it would be storing the datum at the front of the container.
callback_PushFront(p, datum) == [p EXCEPT !.container = <<datum>> \o @]

\* offload_data::callback: _offload_data_container.push_back(datum).
callback(p, datum) == [p EXCEPT !.container = Append(@, datum)]

\* The files of one payload: image i.png and pose i.txt hold datum d.
PngFile(i, d) == [idx |-> i, ext |-> "png", datum |-> d]
PoseFile(i, d) == [idx |-> i, ext |-> "txt", datum |-> d]

\* writeDataToDisk as it would be without the reset of img_idx, which a
\* debug build's callback has counted up to the number of payloads.
writeDataToDisk_NoReset(container, n, opened) ==
    {PngFile(Len(container) + i - 1, container[i]) : i \in 1..n}
        \cup {PoseFile(Len(container) + i - 1, container[i]) : i \in opened}

\* offload_data::writeDataToDisk: img_idx counts from 0 through the
\* container; each turn writes the image, aborting when that fails, and
\* then the pose when its file opens.  n is the number of images written
\* and opened the turns (from 1) whose pose file opened.
writeDataToDisk(container, n, opened) ==
    {PngFile(i - 1, container[i]) : i \in 1..n}
        \cup {PoseFile(i - 1, container[i]) : i \in opened}

\* Index in plugins of the plugin with this id (0 when none).
IndexOf(id) ==
    IF \E i \in 1..Len(plugins) : plugins[i].id = id
    THEN CHOOSE i \in 1..Len(plugins) : plugins[i].id = id
    ELSE 0

\* ------------------------------------------------------------- runtime_impl
\* The factory m called on &pb: constructs the plugin, whose constructor
\* looks up the switchboard and schedules its callback; the caller appends
\* the new object to plugins.
ConstructPlugin(m) ==
    /\ CanSchedule(subs, PayloadType(m))
    /\ plugins' = Append(plugins, offload_data(NextId, m))
    /\ subs' = schedule(subs, NextId, PayloadType(m))

\* The process runs: the runtime is not destroyed and nothing fatal happened.
Alive == ~destroyed /\ failed = "none"

\* What the runtime holds as a load call begins: the number of handles and
\* the number of start() calls each plugin has had.
Held ==
    [libs |-> Len(libs), subs |-> Len(subs),
     starts |-> [i \in 1..Len(plugins) |-> plugins[i].starts]]

\* plugin->start() on plugins[i].
StartPlugin(i) == plugins' = [plugins EXCEPT ![i].starts = @ + 1]

\* --- load_so(const std::vector<std::string>& so_paths)
\* The call as it would be constructing the plugin of the first path as soon
\* as its module is open.
LoadSoBegin_ConstructsFirst(so_paths) ==
    /\ Alive
    /\ pc = "idle"
    /\ loadCalls < MaxLoads
    /\ atLoad' = Held
    /\ Len(plugins) + Len(libs) + Len(so_paths) <= MaxPlugins
    /\ libs' = libs \o so_paths
    /\ IF so_paths # <<>>
       THEN ConstructPlugin(get_factory(so_paths[1]))
       ELSE UNCHANGED <<plugins, subs>>
    /\ pc' = "load_factories"
    /\ loadCalls' = loadCalls + 1
    /\ pathsLoaded' = pathsLoaded + Len(so_paths)
    /\ UNCHANGED <<terminate, plugin_factories, idx, lib, factory, waitPc,
                   sbState, published, dropped, destroyed, aborted,
                   factoryCalls, stopCalls, stopsCompleted, sbStopReturns,
                   stopOrder, pb, stoppedImpl, lifeVars>>

\* The call, and the first transform: dynamic_lib::create of every path,
\* appended to libs.
LoadSoBegin(so_paths) ==
    /\ Alive
    /\ pc = "idle"
    /\ loadCalls < MaxLoads
    /\ atLoad' = Held
    /\ Len(plugins) + Len(libs) + Len(so_paths) <= MaxPlugins
    /\ libs' = libs \o so_paths
    /\ pc' = "load_factories"
    /\ loadCalls' = loadCalls + 1
    /\ pathsLoaded' = pathsLoaded + Len(so_paths)
    /\ UNCHANGED <<plugins, terminate, plugin_factories, idx, lib, factory,
                   waitPc, sbVars, destroyed, aborted, factoryCalls, stopCalls,
                   stopsCompleted, sbStopReturns, stopOrder, pb, stoppedImpl,
                   lifeVars>>

\* The first transform fails: dynamic_lib::create cannot open the j-th path.
\* The handles of the paths before it are in libs; the failure is fatal.
LoadSoOpenFail(so_paths, j) ==
    /\ Alive
    /\ pc = "idle"
    /\ loadCalls < MaxLoads
    /\ j \in 1..Len(so_paths)
    /\ Len(plugins) + Len(libs) + Len(so_paths) <= MaxPlugins
    /\ atLoad' = Held
    /\ libs' = libs \o SubSeq(so_paths, 1, j - 1)
    /\ failed' = "open"
    /\ loadCalls' = loadCalls + 1
    /\ pathsLoaded' = pathsLoaded + Len(so_paths)
    /\ UNCHANGED <<plugins, terminate, ctlVars, waitPc, sbVars, destroyed,
                   aborted, factoryCalls, stopCalls, stopsCompleted,
                   sbStopReturns, stopOrder, pb, stoppedImpl, members, closed,
                   env>>

\* The second transform fails: a module opened by this call does not export
\* this_plugin_factory.  The failure is fatal.
LoadSoSymbolFail ==
    /\ Alive
    /\ pc = "load_factories"
    /\ Len(libs) > atLoad.libs
    /\ failed' = "symbol"
    /\ UNCHANGED <<libs, plugins, terminate, ctlVars, waitPc, sbVars, destroyed,
                   aborted, histVars, pb, stoppedImpl, atLoad, members, closed,
                   env>>

\* The second transform: the factory of every element of libs.
LoadSoFactories ==
    /\ Alive
    /\ pc = "load_factories"
    /\ plugin_factories' = [i \in 1..Len(libs) |-> get_factory(libs[i])]
    /\ idx' = 1
    /\ pc' = "load_construct"
    /\ UNCHANGED <<libs, plugins, terminate, lib, factory, waitPc, sbVars,
                   destroyed, aborted, histVars, pb, stoppedImpl, atLoad,
                   lifeVars>>

\* The third transform as it would be starting each plugin as soon as it is
\* constructed.
LoadSoConstruct_StartEach ==
    /\ Alive
    /\ pc = "load_construct"
    /\ IF idx <= Len(plugin_factories)
       THEN /\ plugins' = Append(plugins,
                    [offload_data(NextId, plugin_factories[idx]) EXCEPT !.starts = 1])
            /\ subs' = schedule(subs, NextId, "texture_pose")
            /\ idx' = idx + 1
            /\ pc' = pc
       ELSE /\ idx' = 1
            /\ pc' = "load_start"
            /\ UNCHANGED <<plugins, subs>>
    /\ UNCHANGED <<libs, terminate, plugin_factories, lib, factory, waitPc,
                   sbState, published, dropped, destroyed, aborted, histVars,
                   pb, stoppedImpl, atLoad, lifeVars>>

\* The third transform, one element per step: the plugin built by
\* plugin_factories[idx] is appended to plugins.
LoadSoConstruct ==
    /\ Alive
    /\ pc = "load_construct"
    /\ IF idx <= Len(plugin_factories)
       THEN /\ ConstructPlugin(plugin_factories[idx])
            /\ idx' = idx + 1
            /\ pc' = pc
       ELSE /\ idx' = 1
            /\ pc' = "load_start"
            /\ UNCHANGED <<plugins, subs>>
    /\ UNCHANGED <<libs, terminate, plugin_factories, lib, factory, waitPc,
                   sbState, published, dropped, destroyed, aborted, histVars,
                   pb, stoppedImpl, atLoad, lifeVars>>

\* The for_each, one element per step: start() on every element of plugins;
\* then the call returns.
LoadSoStart ==
    /\ Alive
    /\ pc = "load_start"
    /\ IF idx <= Len(plugins)
       THEN /\ StartPlugin(idx)
            /\ idx' = idx + 1
            /\ UNCHANGED <<pc, plugin_factories>>
       ELSE /\ idx' = 0
            /\ plugin_factories' = <<>>
            /\ pc' = "idle"
            /\ UNCHANGED plugins
    /\ UNCHANGED <<libs, terminate, lib, factory, waitPc, sbVars, destroyed,
                   aborted, histVars, pb, stoppedImpl, atLoad, lifeVars>>

\* --- load_so(const std::string_view so)
\* The call: dynamic_lib::create(so) into the local lib, its factory
\* resolved, and load_plugin_factory entered with it.
LoadOneBegin(so) ==
    /\ Alive
    /\ pc = "idle"
    /\ loadCalls < MaxLoads
    /\ atLoad' = Held
    /\ Len(plugins) + 1 <= MaxPlugins
    /\ lib' = <<so>>
    /\ factory' = <<get_factory(so)>>
    /\ pc' = "lpf_construct"
    /\ loadCalls' = loadCalls + 1
    /\ pathsLoaded' = pathsLoaded + 1
    /\ UNCHANGED <<libs, plugins, terminate, plugin_factories, idx, waitPc,
                   sbVars, destroyed, aborted, factoryCalls, stopCalls,
                   stopsCompleted, sbStopReturns, stopOrder, pb, stoppedImpl,
                   lifeVars>>

\* dynamic_lib::create(so) fails: nothing was opened; the failure is fatal.
LoadOneOpenFail(so) ==
    /\ Alive
    /\ pc = "idle"
    /\ loadCalls < MaxLoads
    /\ Len(plugins) + 1 <= MaxPlugins
    /\ atLoad' = Held
    /\ failed' = "open"
    /\ loadCalls' = loadCalls + 1
    /\ pathsLoaded' = pathsLoaded + 1
    /\ UNCHANGED <<libs, plugins, terminate, ctlVars, waitPc, sbVars, destroyed,
                   aborted, factoryCalls, stopCalls, stopsCompleted,
                   sbStopReturns, stopOrder, pb, stoppedImpl, members, closed,
                   env>>

\* lib.get("this_plugin_factory") fails: the failure is fatal.  Whether the
\* local lib is destroyed, closing the module, before the process ends
\* depends on whether the stack is unwound.
LoadOneSymbolFail(so) ==
    /\ Alive
    /\ pc = "idle"
    /\ loadCalls < MaxLoads
    /\ Len(plugins) + 1 <= MaxPlugins
    /\ atLoad' = Held
    /\ failed' = "symbol"
    /\ closed' \in {closed, closed \cup {so}}
    /\ loadCalls' = loadCalls + 1
    /\ pathsLoaded' = pathsLoaded + 1
    /\ UNCHANGED <<libs, plugins, terminate, ctlVars, waitPc, sbVars, destroyed,
                   aborted, factoryCalls, stopCalls, stopsCompleted,
                   sbStopReturns, stopOrder, pb, stoppedImpl, members, env>>

\* libs.push_back(std::move(lib)), and the call returns.
LoadOnePush ==
    /\ Alive
    /\ pc = "load_one_push"
    /\ libs' = Append(libs, lib[1])
    /\ lib' = <<>>
    /\ pc' = "idle"
    /\ UNCHANGED <<plugins, terminate, plugin_factories, idx, factory, waitPc,
                   sbVars, destroyed, aborted, histVars, pb, stoppedImpl,
                   atLoad, lifeVars>>

\* --- load_plugin_factory(plugin_factory plugin_main)
\* The call made by the host itself.
LoadPluginFactoryBegin(plugin_main) ==
    /\ Alive
    /\ pc = "idle"
    /\ loadCalls < MaxLoads
    /\ atLoad' = Held
    /\ Len(plugins) + 1 <= MaxPlugins
    /\ factory' = <<plugin_main>>
    /\ pc' = "lpf_construct"
    /\ loadCalls' = loadCalls + 1
    /\ factoryCalls' = factoryCalls + 1
    /\ UNCHANGED <<libs, plugins, terminate, plugin_factories, idx, lib, waitPc,
                   sbVars, destroyed, aborted, pathsLoaded, stopCalls,
                   stopsCompleted, sbStopReturns, stopOrder, pb, stoppedImpl,
                   lifeVars>>

\* plugins.emplace_back(plugin_main(&pb)).
LoadPluginFactoryConstruct ==
    /\ Alive
    /\ pc = "lpf_construct"
    /\ ConstructPlugin(factory[1])
    /\ pc' = "lpf_start"
    /\ UNCHANGED <<libs, terminate, plugin_factories, idx, lib, factory, waitPc,
                   sbState, published, dropped, destroyed, aborted, histVars,
                   pb, stoppedImpl, atLoad, lifeVars>>

\* plugin_main(&pb) fails: the constructor's schedule is refused by the
\* switchboard, no plugin is made, and the failure is fatal.
LoadPluginFactoryConstructFail ==
    /\ Alive
    /\ pc = "lpf_construct"
    /\ ~CanSchedule(subs, PayloadType(factory[1]))
    /\ failed' = "type"
    /\ UNCHANGED <<libs, plugins, terminate, ctlVars, waitPc, sbVars, destroyed,
                   aborted, histVars, pb, stoppedImpl, atLoad, members, closed,
                   env>>

\* plugins.back()->start(), and the return: to load_so(string_view) when it
\* made the call, to the host otherwise.
LoadPluginFactoryStart ==
    /\ Alive
    /\ pc = "lpf_start"
    /\ StartPlugin(Len(plugins))
    /\ factory' = <<>>
    /\ pc' = IF lib # <<>> THEN "load_one_push" ELSE "idle"
    /\ UNCHANGED <<libs, terminate, plugin_factories, idx, lib, waitPc, sbVars,
                   destroyed, aborted, histVars, pb, stoppedImpl, atLoad,
                   lifeVars>>

\* --- stop()
\* stop() as it would be with the plugins stopped before the switchboard.
StopStatements_PluginsFirst ==
    <<"stop_plugins", "stop_switchboard", "stop_terminate">>

\* stop() as it would be without the switchboard's stop.
StopStatements_NoSwitchboard == <<"stop_plugins", "stop_terminate">>

\* stop() as it would be without the store to terminate.
StopStatements_NoTerminate == <<"stop_switchboard", "stop_plugins">>

\* The statements of stop(), in the order the body makes them:
\*   pb.lookup_impl<switchboard>()->stop();
\*   for (plugin : plugins) plugin->stop();
\*   terminate.store(true);
StopStatements == <<"stop_switchboard", "stop_plugins", "stop_terminate">>

\* The statement after statement p of stop(); "idle" when stop() returns.
AfterStop(p) ==
    LET i == CHOOSE j \in 1..Len(StopStatements) : StopStatements[j] = p
    IN  IF i < Len(StopStatements) THEN StopStatements[i + 1] ELSE "idle"

\* The number of stop() calls that have returned, once statement p is done.
StopsCompletedAfter(p) ==
    IF AfterStop(p) = "idle" THEN stopsCompleted + 1 ELSE stopsCompleted

\* The host calls stop().
StopBegin ==
    /\ Alive
    /\ pc = "idle"
    /\ stopCalls < MaxStops
    /\ pc' = StopStatements[1]
    /\ idx' = 1
    /\ stopCalls' = stopCalls + 1
    /\ stopOrder' = <<>>
    /\ UNCHANGED <<libs, plugins, terminate, plugin_factories, lib, factory,
                   waitPc, sbVars, destroyed, aborted, loadCalls, pathsLoaded,
                   factoryCalls, stopsCompleted, sbStopReturns, pb, stoppedImpl,
                   atLoad, lifeVars>>

\* switchboard::stop() is entered: a running switchboard begins no further
\* dispatch from here on.
SwitchboardStopCall ==
    /\ Alive
    /\ pc = "stop_switchboard"
    /\ sbState = "running"
    /\ stoppedImpl' = lookup_impl(pb, "switchboard")
    /\ sbState' = "stopping"
    /\ UNCHANGED <<libs, plugins, terminate, ctlVars, waitPc, subs, published,
                   dropped, destroyed, aborted, histVars, pb, atLoad, lifeVars>>

\* switchboard::stop() returns: not while a callback is still executing.
\* A repeated call finds the switchboard stopped and changes nothing.
SwitchboardStopReturn ==
    /\ Alive
    /\ pc = "stop_switchboard"
    /\ sbState # "running"
    /\ \A k \in 1..Len(subs) : subs[k].inflight = 0
    /\ stoppedImpl' = lookup_impl(pb, "switchboard")
    /\ sbState' = "stopped"
    /\ sbStopReturns' = sbStopReturns + 1
    /\ pc' = AfterStop(pc)
    /\ stopsCompleted' = StopsCompletedAfter(pc)
    /\ UNCHANGED <<libs, plugins, terminate, plugin_factories, idx, lib,
                   factory, waitPc, subs, published, dropped, destroyed,
                   aborted, loadCalls, pathsLoaded, factoryCalls, stopCalls,
                   stopOrder, pb, atLoad, lifeVars>>

\* The for loop as it would be iterating back to front.
StopPlugins_BackToFront ==
    /\ Alive
    /\ pc = "stop_plugins"
    /\ IF idx <= Len(plugins)
       THEN /\ plugins' = [plugins EXCEPT ![Len(plugins) + 1 - idx].stops = @ + 1]
            /\ stopOrder' = Append(stopOrder, plugins[Len(plugins) + 1 - idx].id)
            /\ idx' = idx + 1
            /\ pc' = pc
            /\ UNCHANGED stopsCompleted
       ELSE /\ pc' = AfterStop(pc)
            /\ stopsCompleted' = StopsCompletedAfter(pc)
            /\ UNCHANGED <<plugins, stopOrder, idx>>
    /\ UNCHANGED <<libs, terminate, plugin_factories, lib, factory, waitPc,
                   sbVars, destroyed, aborted, loadCalls, pathsLoaded,
                   factoryCalls, stopCalls, sbStopReturns, pb, stoppedImpl,
                   atLoad, lifeVars>>

\* The for loop, one element per step: plugin->stop() on every element of
\* plugins, front to back.
StopPlugins ==
    /\ Alive
    /\ pc = "stop_plugins"
    /\ IF idx <= Len(plugins)
       THEN /\ plugins' = [plugins EXCEPT ![idx].stops = @ + 1]
            /\ stopOrder' = Append(stopOrder, plugins[idx].id)
            /\ idx' = idx + 1
            /\ pc' = pc
            /\ UNCHANGED stopsCompleted
       ELSE /\ pc' = AfterStop(pc)
            /\ stopsCompleted' = StopsCompletedAfter(pc)
            /\ UNCHANGED <<plugins, stopOrder, idx>>
    /\ UNCHANGED <<libs, terminate, plugin_factories, lib, factory, waitPc,
                   sbVars, destroyed, aborted, loadCalls, pathsLoaded,
                   factoryCalls, stopCalls, sbStopReturns, pb, stoppedImpl,
                   atLoad, lifeVars>>

\* terminate.store(true).
StopTerminate ==
    /\ Alive
    /\ pc = "stop_terminate"
    /\ terminate' = TRUE
    /\ pc' = AfterStop(pc)
    /\ stopsCompleted' = StopsCompletedAfter(pc)
    /\ UNCHANGED <<libs, plugins, plugin_factories, idx, lib, factory, waitPc,
                   sbVars, destroyed, aborted, loadCalls, pathsLoaded,
                   factoryCalls, stopCalls, sbStopReturns, stopOrder, pb,
                   stoppedImpl, atLoad, lifeVars>>

\* --- wait()
\* A host thread calls wait().
WaitCall ==
    /\ Alive
    /\ waitPc \in {"out", "returned"}
    /\ waitPc' = "polling"
    /\ UNCHANGED <<libs, plugins, terminate, ctlVars, sbVars, destroyed,
                   aborted, histVars, pb, stoppedImpl, atLoad, lifeVars>>

\* wait() as it would be with the loop condition inverted.
WaitReturn_Inverted ==
    /\ Alive
    /\ waitPc = "polling"
    /\ ~terminate
    /\ waitPc' = "returned"
    /\ UNCHANGED <<libs, plugins, terminate, ctlVars, sbVars, destroyed,
                   aborted, histVars, pb, stoppedImpl, atLoad, lifeVars>>

\* while (!terminate.load()) sleep: the loop is left, and wait() returns,
\* on a load that reads true; a load that reads false changes nothing.
WaitReturn ==
    /\ Alive
    /\ waitPc = "polling"
    /\ terminate
    /\ waitPc' = "returned"
    /\ UNCHANGED <<libs, plugins, terminate, ctlVars, sbVars, destroyed,
                   aborted, histVars, pb, stoppedImpl, atLoad, lifeVars>>

\* --- ~runtime_impl()
\* The destructor as it would be with the test of terminate inverted.
Destroy_Inverted ==
    /\ Alive
    /\ destroyed' = TRUE
    /\ aborted' = terminate
    /\ UNCHANGED <<libs, plugins, terminate, ctlVars, waitPc, sbVars, histVars,
                   pb, stoppedImpl, atLoad, lifeVars>>

\* if (!terminate.load()) abort().  The destructor may be reached in any
\* state of the other threads; nothing runs after it.
Destroy ==
    /\ Alive
    /\ destroyed' = TRUE
    /\ aborted' = ~terminate
    /\ UNCHANGED <<libs, plugins, terminate, ctlVars, waitPc, sbVars, histVars,
                   pb, stoppedImpl, atLoad, lifeVars>>

\* The members are destroyed after the destructor's body, each once the
\* members declared after it are destroyed.
NextMember == members[Len(members)]

\* The elements of a sequence.
Range(q) == {q[i] : i \in 1..Len(q)}

\* ~offload_data of the first plugin not yet destructed, as the vector
\* plugins is destroyed.  With offloading enabled it writes the container
\* to disk: the process aborts at the first image that cannot be written;
\* on an empty container writeMetadata dereferences the end iterator,
\* which the build may survive or not.
DestructPlugin ==
    /\ destroyed
    /\ ~aborted
    /\ failed = "none"
    /\ members # <<>>
    /\ NextMember = "plugins"
    /\ \E i \in 1..Len(plugins) :
           /\ ~plugins[i].destructed
           /\ \A j \in 1..(i - 1) : plugins[j].destructed
           /\ IF ~plugins[i].enable_offload
              THEN /\ plugins' = [plugins EXCEPT ![i].destructed = TRUE]
                   /\ UNCHANGED failed
              ELSE \E n \in 0..Len(plugins[i].container) :
                   \E opened \in SUBSET (1..n) :
                       LET written == writeDataToDisk(plugins[i].container, n, opened)
                       IN  IF n < Len(plugins[i].container)
                           THEN /\ plugins' = [plugins EXCEPT ![i].files = written]
                                /\ failed' = "image"
                           ELSE /\ plugins' = [plugins EXCEPT ![i].files = written,
                                                              ![i].destructed = TRUE]
                                /\ failed' \in (IF n = 0 THEN {"none", "metadata"}
                                                         ELSE {"none"})
    /\ UNCHANGED <<libs, terminate, ctlVars, waitPc, sbVars, destroyed, aborted,
                   histVars, pb, stoppedImpl, atLoad, members, closed, env>>

\* The next member is destroyed: the vector plugins once its elements
\* are, the phonebook with the switchboard it owns, the vector libs with
\* the handles in it, which closes their modules.
DestroyMember ==
    /\ destroyed
    /\ ~aborted
    /\ failed = "none"
    /\ members # <<>>
    /\ NextMember = "plugins" => \A i \in 1..Len(plugins) : plugins[i].destructed
    /\ members' = SubSeq(members, 1, Len(members) - 1)
    /\ pb' = IF NextMember = "pb" THEN <<>> ELSE pb
    /\ subs' = IF NextMember = "pb" THEN <<>> ELSE subs
    /\ closed' = IF NextMember = "libs" THEN closed \cup Range(libs) ELSE closed
    /\ libs' = IF NextMember = "libs" THEN <<>> ELSE libs
    /\ UNCHANGED <<plugins, terminate, ctlVars, waitPc, sbState, published,
                   dropped, destroyed, aborted, histVars, stoppedImpl, atLoad,
                   failed, env>>

\* ------------------------------------------------------------- publisher and dispatch
\* switchboard publish of the next texture_pose; events are numbered in
\* publication order.
Publish ==
    /\ Alive
    /\ published < MaxEvents
    /\ published' = published + 1
    /\ IF sbState = "running"
       THEN /\ subs' = put(subs, published + 1)
            /\ UNCHANGED dropped
       ELSE /\ dropped' = dropped + 1
            /\ UNCHANGED subs
    /\ UNCHANGED <<libs, plugins, terminate, ctlVars, waitPc, sbState,
                   destroyed, aborted, histVars, pb, stoppedImpl, atLoad,
                   lifeVars>>

\* Dispatch as it would be in a switchboard that never looks at its state.
Dispatch_Unguarded(k) ==
    /\ Alive
    /\ subs[k].inflight = 0
    /\ subs[k].queue # <<>>
    /\ subs' = [subs EXCEPT ![k].inflight = Head(subs[k].queue),
                            ![k].queue = Tail(@)]
    /\ UNCHANGED <<libs, plugins, terminate, ctlVars, waitPc, sbState,
                   published, dropped, destroyed, aborted, histVars, pb,
                   stoppedImpl, atLoad, lifeVars>>

\* The switchboard takes the oldest undelivered event of subscription k and
\* enters the subscriber's callback with it.
Dispatch(k) ==
    /\ Alive
    /\ sbState = "running"
    /\ subs[k].inflight = 0
    /\ subs[k].queue # <<>>
    /\ subs' = [subs EXCEPT ![k].inflight = Head(subs[k].queue),
                            ![k].queue = Tail(@)]
    /\ UNCHANGED <<libs, plugins, terminate, ctlVars, waitPc, sbState,
                   published, dropped, destroyed, aborted, histVars, pb,
                   stoppedImpl, atLoad, lifeVars>>

\* The callback scheduled by offload_data's constructor runs
\* callback(datum) on the owning plugin and returns.
Callback(k) ==
    /\ Alive
    /\ subs[k].inflight # 0
    /\ IndexOf(subs[k].owner) # 0
    /\ plugins' = [plugins EXCEPT ![IndexOf(subs[k].owner)] =
                       callback(@, subs[k].inflight)]
    /\ subs' = [subs EXCEPT ![k].inflight = 0]
    /\ UNCHANGED <<libs, terminate, ctlVars, waitPc, sbState, published,
                   dropped, destroyed, aborted, histVars, pb, stoppedImpl,
                   atLoad, lifeVars>>

\* ------------------------------------------------------------- specification
Next ==
    \/ \E n \in 0..MaxPlugins : LoadSoBegin(FreshPaths(n))
    \/ LoadSoFactories
    \/ LoadSoConstruct
    \/ LoadSoStart
    \/ LoadOneBegin(pathsLoaded + 1)
    \/ LoadOnePush
    \/ LoadPluginFactoryBegin(<<>>)
    \/ LoadPluginFactoryConstruct
    \/ LoadPluginFactoryStart
    \/ StopBegin
    \/ SwitchboardStopCall
    \/ SwitchboardStopReturn
    \/ StopPlugins
    \/ StopTerminate
    \/ WaitCall
    \/ WaitReturn
    \/ Destroy
    \/ Publish
    \/ \E k \in 1..Len(subs) : Dispatch(k)
    \/ \E k \in 1..Len(subs) : Callback(k)

Spec == Init /\ [][Next]_vars

\* Scheduling: a thread inside stop() keeps executing it, switchboard::stop()
\* and the plugins' stop() return, a callback that was entered returns, and
\* the polling loop of wait() keeps loading the flag.  Nothing obliges the
\* host to call load_so, stop or wait, or the publisher to publish.
Fairness ==
    /\ WF_vars(SwitchboardStopCall)
    /\ WF_vars(SwitchboardStopReturn)
    /\ WF_vars(StopPlugins)
    /\ WF_vars(StopTerminate)
    /\ WF_vars(\E k \in 1..Len(subs) : Callback(k))
    /\ WF_vars(WaitReturn)

\* The steps of the runtime whose host loads plugins one path at a time
\* with load_so(string_view).
NextFair ==
    \/ LoadOneBegin(pathsLoaded + 1)
    \/ LoadOnePush
    \/ LoadPluginFactoryConstruct
    \/ LoadPluginFactoryStart
    \/ StopBegin
    \/ SwitchboardStopCall
    \/ SwitchboardStopReturn
    \/ StopPlugins
    \/ StopTerminate
    \/ WaitCall
    \/ WaitReturn
    \/ Destroy
    \/ Publish
    \/ \E k \in 1..Len(subs) : Dispatch(k)
    \/ \E k \in 1..Len(subs) : Callback(k)

\* The host's loading, stopping and destroying of the runtime, failures of
\* loading included; no event is published.
NextLoad ==
    \/ \E n \in 0..MaxPlugins : LoadSoBegin(FreshPaths(n))
    \/ \E n \in 1..MaxPlugins : \E j \in 1..n : LoadSoOpenFail(FreshPaths(n), j)
    \/ LoadSoSymbolFail
    \/ LoadSoFactories
    \/ LoadSoConstruct
    \/ LoadSoStart
    \/ LoadOneBegin(pathsLoaded + 1)
    \/ LoadOneOpenFail(pathsLoaded + 1)
    \/ LoadOneSymbolFail(pathsLoaded + 1)
    \/ LoadOnePush
    \/ LoadPluginFactoryBegin(<<>>)
    \/ (subs # <<>> /\ LoadPluginFactoryBegin(MistypedFactory))
    \/ LoadPluginFactoryConstruct
    \/ LoadPluginFactoryConstructFail
    \/ LoadPluginFactoryStart
    \/ StopBegin
    \/ SwitchboardStopCall
    \/ SwitchboardStopReturn
    \/ StopPlugins
    \/ StopTerminate
    \/ Destroy
    \/ DestructPlugin
    \/ DestroyMember

SpecLoad == Init /\ [][NextLoad]_vars

\* One run of a host that loads offload_data by path, in any environment:
\* events are delivered, the runtime is stopped and destroyed.
NextOffload ==
    \/ LoadOneBegin(pathsLoaded + 1)
    \/ LoadOnePush
    \/ LoadPluginFactoryConstruct
    \/ LoadPluginFactoryStart
    \/ StopBegin
    \/ SwitchboardStopCall
    \/ SwitchboardStopReturn
    \/ StopPlugins
    \/ StopTerminate
    \/ Publish
    \/ \E k \in 1..Len(subs) : Dispatch(k)
    \/ \E k \in 1..Len(subs) : Callback(k)
    \/ Destroy
    \/ DestructPlugin
    \/ DestroyMember

SpecOffload == InitEnv /\ [][NextOffload]_vars

SpecFair == Init /\ [][NextFair]_vars /\ Fairness

\* ------------------------------------------------------------- claims
\* The ids of the held plugins, in the order of the vector.
HeldIds == [i \in 1..Len(plugins) |-> plugins[i].id]

\* The plugin that owns subscription k.
Owner(k) == plugins[IndexOf(subs[k].owner)]

\* C1: in every execution of stop(), the switchboard's stop() has been
\* called and has returned before stop() is invoked on any plugin: while the
\* call is at its plugin loop or past it, every stop() call made so far has
\* had its switchboard stop return and the switchboard is stopped; and no
\* plugin has ever been stopped without a returned switchboard stop.
C1_SwitchboardStoppedBeforePlugins ==
    /\ pc \in {"stop_plugins", "stop_terminate"} =>
           (sbStopReturns = stopCalls /\ sbState = "stopped")
    /\ \A i \in 1..Len(plugins) : plugins[i].stops > 0 => sbStopReturns >= 1

\* C1 witness: stop() is in its plugin loop with two plugins held and the
\* first of them already stopped.
C1_Witness ==
    /\ pc = "stop_plugins"
    /\ Len(plugins) >= 2
    /\ Len(stopOrder) = 1

\* C2: stop() stops the held plugins in the order they were loaded (the
\* order of construction, which is the order of the vector), and terminate
\* turns true only once every held plugin has been stopped by that call.
C2_StopInLoadOrderThenTerminate ==
    /\ [](/\ \A i, j \in 1..Len(plugins) : i < j => plugins[i].id < plugins[j].id
          /\ Len(stopOrder) <= Len(plugins)
          /\ \A j \in 1..Len(stopOrder) : stopOrder[j] = plugins[j].id)
    /\ [][(~terminate /\ terminate') => stopOrder = HeldIds]_vars

\* C2 witness: two plugins were loaded, stop() has stopped both and
\* terminate is true.
C2_Witness ==
    /\ terminate
    /\ Len(plugins) = 2
    /\ Len(stopOrder) = 2
    /\ pc = "idle"

\* C3: every held plugin has start() invoked exactly once, whatever load
\* calls are made: never more than once, and once when no load call is
\* running.
C3_StartExactlyOnce ==
    \A i \in 1..Len(plugins) :
        /\ plugins[i].starts <= 1
        /\ pc = "idle" => plugins[i].starts = 1

\* C4: between calls, the number of held handles is the number of module
\* paths supplied so far, and the number of held plugins is one per supplied
\* path plus one per direct load_plugin_factory call.
C4_OneHandleOnePluginPerPath ==
    pc = "idle" =>
        /\ Len(libs) = pathsLoaded
        /\ Len(plugins) = pathsLoaded + factoryCalls

\* C5: no plugin has stop() invoked more than once, however many times the
\* host calls stop().
C5_StopAtMostOnce ==
    \A i \in 1..Len(plugins) : plugins[i].stops <= 1

C7_WaitReturnsOnlyAfterStop ==
    waitPc = "returned" => (terminate /\ stopCalls >= 1 /\ stopsCompleted >= 1)

\* C7 witness: wait() has returned after plugins were loaded and stopped.
C7_Witness ==
    /\ waitPc = "returned"
    /\ Len(plugins) >= 1
    /\ \A i \in 1..Len(plugins) : plugins[i].stops >= 1

\* C8: no subscriber callback of a plugin is executing once that plugin's
\* stop() has been invoked.
C8_NoCallbackIntoStoppedPlugin ==
    \A k \in 1..Len(subs) :
        subs[k].inflight # 0 =>
            /\ IndexOf(subs[k].owner) # 0
            /\ Owner(k).stops = 0

\* C8 witness: a plugin that has received a callback is stopped while a
\* further event is still waiting in its subscription's queue.
C8_Witness ==
    \E k \in 1..Len(subs) :
        /\ Owner(k).stops > 0
        /\ Owner(k).container # <<>>
        /\ subs[k].queue # <<>>

\* C9: once the switchboard's stop() has returned no subscriber callback
\* executes, whatever is published during or after the stop.
C9_NoCallbackAfterSwitchboardStop ==
    sbState = "stopped" => \A k \in 1..Len(subs) : subs[k].inflight = 0

\* C9 witness: the switchboard is stopped, a publish call found it not
\* running, and an event accepted earlier is still undelivered.
C9_Witness ==
    /\ sbState = "stopped"
    /\ dropped > 0
    /\ \E k \in 1..Len(subs) : subs[k].queue # <<>>

\* The events subscription k has been, is being and is still to be called
\* back on, in that order.
Stream(k) ==
    Owner(k).container
        \o (IF subs[k].inflight # 0 THEN <<subs[k].inflight>> ELSE <<>>)
        \o subs[k].queue

\* C10: a subscriber's callback is invoked on the events of the topic in
\* the order they were published (events are numbered in publication
\* order): what it has stored, is running on and has queued are consecutive
\* events, none later than the last one published.
C10_CallbacksInPublicationOrder ==
    \A k \in 1..Len(subs) :
        LET q == Stream(k)
        IN  /\ \A j \in 1..(Len(q) - 1) : q[j + 1] = q[j] + 1
            /\ \A j \in 1..Len(q) : q[j] \in 1..published

\* C10 witness: the only subscriber has been called back on two events, in
\* the order they were published.
C10_Witness ==
    /\ Len(subs) = 1
    /\ plugins[1].container = <<1, 2>>

\* The events the switchboard has accepted: the first published - dropped
\* ones (a switchboard that has left "running" never runs again).
Accepted == published - dropped

C12_LookupReturnsRegisteredInstance ==
    /\ \A i \in 1..Len(pb) :
           Cardinality({j \in 1..Len(pb) : pb[j].capability = pb[i].capability}) = 1
               => lookup_impl(pb, pb[i].capability) = pb[i].impl
    /\ \A i \in 1..Len(plugins) : plugins[i].sb = "switchboard"
    /\ stoppedImpl \in {"none", "switchboard"}
    /\ \A i \in 1..Len(plugins) :
           stoppedImpl # "none" => plugins[i].sb = stoppedImpl

\* C12 witness: a plugin holds the switchboard it looked up and stop() has
\* looked the switchboard up and stopped it.
C12_Witness ==
    /\ Len(plugins) >= 1
    /\ plugins[1].sb = "switchboard"
    /\ stoppedImpl = "switchboard"

\* The capabilities the runtime provides built in.
BuiltinCapabilities ==
    {"record_logger", "gen_guid", "switchboard", "xlib_gl_extended_window",
     "realtime_clock"}

\* C16: in every state in which a module is loaded, a load call is under
\* way or a plugin exists, each built-in service is registered exactly
\* once, for as long as the phonebook is not destroyed, and no plugin's
\* constructor found the switchboard unregistered.
C16_BuiltinsRegisteredBeforeLoad ==
    (libs # <<>> \/ plugins # <<>> \/ pc # "idle" \/ lib # <<>>) =>
        /\ "pb" \in Range(members) =>
               \A c \in BuiltinCapabilities :
                   Cardinality({j \in 1..Len(pb) : pb[j].capability = c}) = 1
        /\ \A i \in 1..Len(plugins) : plugins[i].sb # "unregistered"

\* C16 witness: a load call has just constructed its plugin, which is not
\* started yet.
C16_Witness ==
    /\ pc = "lpf_start"
    /\ Len(plugins) = 1
    /\ plugins[1].starts = 0

\* C17: whenever terminate is true, the switchboard is stopped and every
\* plugin the runtime holds has had stop() invoked.
C17_TerminateMeansAllStopped ==
    terminate =>
        /\ sbState = "stopped"
        /\ \A i \in 1..Len(plugins) : plugins[i].stops >= 1

\* The number of plugins held when the current load call began.
HeldBefore == Len(atLoad.starts)

\* C19: within one load_so(paths) call every handle is opened, then every
\* factory resolved, then the plugins of the batch constructed in order, and
\* only then is any of them started: while the call resolves and constructs,
\* no plugin of the batch has been started; when it starts plugins, every
\* plugin of the batch exists, built by its factory in order, with its
\* subscription registered.
C19_BatchConstructedBeforeAnyStart ==
    /\ pc \in {"load_factories", "load_construct"} =>
           \A i \in 1..Len(plugins) : i > HeldBefore => plugins[i].starts = 0
    /\ pc = "load_construct" =>
           /\ Len(plugin_factories) = Len(libs)
           /\ Len(plugins) = HeldBefore + idx - 1
    /\ pc = "load_start" =>
           /\ Len(plugins) = HeldBefore + Len(plugin_factories)
           /\ \A j \in 1..Len(plugin_factories) :
                  /\ plugins[HeldBefore + j].module = plugin_factories[j]
                  /\ \E k \in 1..Len(subs) : subs[k].owner = plugins[HeldBefore + j].id

\* C19 witness: a batch of two plugins is constructed, the first of them is
\* started and the second is not yet.
C19_Witness ==
    /\ pc = "load_start"
    /\ HeldBefore = 0
    /\ Len(plugins) = 2
    /\ plugins[1].starts = 1
    /\ plugins[2].starts = 0

\* C18: under fair scheduling, once stop() has been called, a thread blocked
\* in wait() eventually returns from it (as long as the runtime is not
\* destroyed under it), whether wait() was called before, during or after
\* stop(); and the terminate flag is never reset.
C18_WaitEventuallyReturns ==
    /\ (waitPc = "polling" /\ stopCalls > 0) ~> (waitPc = "returned" \/ destroyed)
    /\ [][terminate => terminate']_vars

\* C18 witness: wait() has returned after a stop() that stopped a plugin.
C18_Witness ==
    /\ waitPc = "returned"
    /\ stopsCompleted = 1
    /\ Len(plugins) >= 1
    /\ plugins[1].stops = 1
    /\ ~destroyed

\* C13: when opening a module or resolving its factory symbol fails during a
\* load call, the failure is fatal and no plugin of that call has been
\* constructed or started: the runtime holds the plugins it held when the
\* call began, each started as often as it was then.
C13_NoPluginOfFailedLoad ==
    failed \in {"open", "symbol"} =>
        /\ Len(plugins) = HeldBefore
        /\ \A i \in 1..Len(plugins) : plugins[i].starts = atLoad.starts[i]

\* C13 witness: a load_so(paths) call that opened a module fails to resolve
\* its factory while the runtime holds a started plugin of an earlier call.
C13_Witness ==
    /\ failed = "symbol"
    /\ pc = "load_factories"
    /\ Len(libs) = 1
    /\ Len(plugins) = 1
    /\ plugins[1].starts = 1

\* C14: scheduling a subscriber on a topic that is bound to payload type P
\* with another payload type fails at subscribe time, inside the
\* constructor that schedules, and leaves the subscriptions of the topic as
\* they were: every subscription of the topic has the one payload type, and
\* after the failure the topic has the subscriptions, and the runtime the
\* plugins, that existed when the load call began.
C14_MistypedScheduleFails ==
    /\ \A k \in 1..Len(subs) : subs[k].type = "texture_pose"
    /\ failed = "type" =>
           /\ pc = "lpf_construct"
           /\ Len(subs) = atLoad.subs
           /\ Len(plugins) = HeldBefore

\* C14 witness: the mistyped schedule has failed on a topic that has a
\* subscription of offload_data.
C14_Witness ==
    /\ failed = "type"
    /\ Len(subs) = 1
    /\ subs[1].type = "texture_pose"
    /\ factory = <<MistypedFactory>>

\* The module handle h is open and held: by libs, or by the local lib of a
\* load_so(string_view) call under way.
HandleOpen(h) == h \notin closed /\ (h \in Range(libs) \/ lib = <<h>>)

\* The plugins that exist: constructed and not destructed.
Existing == {i \in 1..Len(plugins) : ~plugins[i].destructed}

\* C15: for every plugin that exists, the handle of the module it was
\* created from is open, the local handle of load_so(string_view) included;
\* when a handle of the runtime has been closed, every plugin and the
\* phonebook with the switchboard's subscriptions have been destroyed; and
\* until the runtime is destroyed libs only grows at its end.
C15_HandleOutlivesPlugin ==
    /\ [](/\ \A i \in Existing :
                 plugins[i].module \notin {<<>>, MistypedFactory} =>
                     HandleOpen(plugins[i].module[1])
          /\ (closed # {} /\ failed = "none") =>
                 (Existing = {} /\ pb = <<>> /\ subs = <<>>))
    /\ [][~destroyed' =>
             (Len(libs') >= Len(libs) /\ SubSeq(libs', 1, Len(libs)) = libs)]_vars

\* C15 witness: the runtime is destroyed down to libs: the plugin made from
\* the module of the handle still in libs is destructed and the phonebook is
\* gone.
C15_Witness ==
    /\ members = <<"libs">>
    /\ Len(libs) = 1
    /\ Len(plugins) = 1
    /\ plugins[1].destructed
    /\ plugins[1].module = <<libs[1]>>
    /\ pb = <<>>

\* The files of a container written in full: payload i (from 0) in i.png
\* and i.txt.
ExpectedFiles(c) ==
    {[idx |-> i, ext |-> e, datum |-> c[i + 1]] :
         i \in 0..(Len(c) - 1), e \in {"png", "txt"}}

\* The image files among a set of files.
Images(files) == {f \in files : f.ext = "png"}

====
